---- MODULE Spec2Model ----
(***************************************************************************)
(* A model of the scrapeMe image crawler: the CLI run of                   *)
(* scrapeImageDetailsCrawler.ts and the POST /scrape handler of the GUI    *)
(* server.  A JavaScript string is a sequence of tokens (a token is a      *)
(* piece of text that the model never looks inside), so that               *)
(* concatenation, trimming, prefix and substring tests, URL parsing and    *)
(* CSV assembly are computed and not assumed.                              *)
(***************************************************************************)
EXTENDS Integers, Sequences, FiniteSets, TLC

VARIABLES
    mode,           \* "cli" (scrapeImageDetailsCrawler.ts) or "server" (POST /scrape)
    pc,             \* position of the run between two awaits
    finalUrl,       \* websiteUrl (CLI) / finalUrl (server): the root URL string
    anchors,        \* href attribute of every <a> of the root page, Null when absent
    browser,        \* "none" | "open" | "closed"
    closeCount,     \* number of browser.close() calls
    pagesToVisit,   \* [root, ...internal links]
    idx,            \* position of the for-of loop in pagesToVisit
    visitedPages,   \* the CLI's Set of visited page URLs
    visited,        \* history: the pages handed to scrapeImagesFromPage, in order
    rawData,        \* the {url, width, height} items of the page being scraped
    imgIdx,         \* position of the probe loop in rawData
    imageData,      \* the records of the page being scraped
    allImages,      \* the records of the pages scraped so far
    probe,          \* the HEAD request in flight
    csvFile,        \* NoFile, or the text written to the CSV file
    responses,      \* the HTTP responses sent for the request
    trail           \* history: what the run went through

vars == <<mode, pc, finalUrl, anchors, browser, closeCount, pagesToVisit, idx,
          visitedPages, visited, rawData, imgIdx, imageData, allImages, probe,
          csvFile, responses, trail>>

(***************************************************************************)
(* Bounds of the model.                                                    *)
(***************************************************************************)
MaxLinks == 12      \* anchors on the root page, link-collector scenarios
MaxPaths == 12      \* distinct paths among those anchors
MaxAnchors == 3     \* anchors on the root page, whole-run scenarios
MaxRecords == 2     \* image records, CSV scenarios

(***************************************************************************)
(* Strings.                                                                *)
(***************************************************************************)
Min(a, b) == IF a < b THEN a ELSE b

\* F(e), with e evaluated once (a const binding)
With(e, F(_)) == CHOOSE r \in { F(v) : v \in {e} } : TRUE

\* String.prototype.includes
Includes(s, t) ==
    \E i \in 0..(Len(s) - Len(t)) : SubSeq(s, i + 1, i + Len(t)) = t

\* index of the first token of s that is in S, Len(s) + 1 when there is none
FirstIdx(s, S) ==
    IF \E i \in 1..Len(s) : s[i] \in S
    THEN CHOOSE i \in 1..Len(s) : s[i] \in S /\ \A j \in 1..(i - 1) : s[j] \notin S
    ELSE Len(s) + 1

\* index of the last token of s that is not in S, 0 when there is none
LastIdxNotIn(s, S) ==
    IF \E i \in 1..Len(s) : s[i] \notin S
    THEN CHOOSE i \in 1..Len(s) : s[i] \notin S /\ \A j \in (i + 1)..Len(s) : s[j] \in S
    ELSE 0

\* String.prototype.trim
Trim(s) == SubSeq(s, FirstIdx(s, { t \in { s[i] : i \in 1..Len(s) } : t # " " }),
                  LastIdxNotIn(s, {" "}))

\* the attribute / field is absent (null or undefined)
Null == <<"<null>">>

(***************************************************************************)
(* The URL class of Node: new URL(href, base), .origin, .href, .hostname.  *)
(***************************************************************************)
SpecialSchemes == {"http", "https"}
PortTokens == {"80", "443", "8080"}
DefaultPort(scheme) == IF scheme = "https" THEN "443" ELSE "80"

\* the parser threw (TypeError: Invalid URL)
Invalid == [ok |-> FALSE, scheme |-> "", host |-> <<>>, port |-> "", path |-> <<>>]

\* scheme://host[:port][/path]: the port is dropped when it is the scheme's default
ParseAbsolute(s) ==
    IF Len(s) < 2 \/ s[1] \notin SpecialSchemes \/ s[2] # "://" THEN Invalid
    ELSE LET rest == SubSeq(s, 3, Len(s))
             h == FirstIdx(rest, {":", "/"})
             host == SubSeq(rest, 1, h - 1)
             hasPort == h <= Len(rest) /\ rest[h] = ":"
             portTok == IF hasPort /\ h + 1 <= Len(rest) THEN rest[h + 1] ELSE ""
             after == IF hasPort THEN SubSeq(rest, h + 2, Len(rest))
                      ELSE SubSeq(rest, h, Len(rest))
         IN  IF \/ host = <<>>
                \/ hasPort /\ portTok \notin PortTokens
                \/ after # <<>> /\ after[1] # "/"
             THEN Invalid
             ELSE [ok |-> TRUE, scheme |-> s[1], host |-> host,
                   port |-> IF hasPort /\ portTok # DefaultPort(s[1]) THEN portTok ELSE "",
                   path |-> IF after = <<>> THEN <<"/">> ELSE after]

\* new URL(href, base): an absolute href stands alone, any other is resolved
\* against base; a scheme that is not http(s) gives a URL with an opaque origin
NewURL(href, base) ==
    IF Len(href) >= 2 /\ href[2] \in {"://", ":"}
    THEN IF href[1] \in SpecialSchemes THEN ParseAbsolute(href)
         ELSE IF href[2] = ":"
              THEN [ok |-> TRUE, scheme |-> href[1], host |-> <<>>, port |-> "",
                    path |-> SubSeq(href, 3, Len(href))]
              ELSE Invalid
    ELSE LET b == ParseAbsolute(base)
         IN  IF ~b.ok THEN Invalid
             ELSE [b EXCEPT !.path = IF href = <<>> THEN b.path
                                     ELSE IF href[1] = "/" THEN href
                                     ELSE <<"/">> \o href]

\* url.origin
OriginOf(u) ==
    IF u.scheme \in SpecialSchemes
    THEN <<u.scheme, "://">> \o u.host \o (IF u.port = "" THEN <<>> ELSE <<":", u.port>>)
    ELSE <<"null">>

\* url.href
HrefOf(u) ==
    IF u.scheme \in SpecialSchemes THEN OriginOf(u) \o u.path
    ELSE <<u.scheme, ":">> \o u.path

(***************************************************************************)
(* The link collector.                                                     *)
(***************************************************************************)
LinkLimit == 10

\* a slip: the origin test left out, every resolved href is returned
HrefAnyOrigin(fullUrl, baseUrl) == HrefOf(fullUrl)

\* return fullUrl.origin === baseUrl ? fullUrl.href : null
HrefIfSameOrigin(fullUrl, baseUrl) ==
    IF OriginOf(fullUrl) = baseUrl THEN HrefOf(fullUrl) ELSE Null

\* the .map callback of normalizeAndFilterLinks (CLI): a falsy href is dropped
\* before it is resolved, a href that does not parse in the catch
MapHrefCli(href, baseUrl) ==
    IF href = Null \/ href = <<>> THEN Null
    ELSE With(NewURL(href, baseUrl),
              LAMBDA fullUrl : IF ~fullUrl.ok THEN Null
                               ELSE HrefIfSameOrigin(fullUrl, baseUrl))

\* the .map callback of getInternalLinks (server)
MapHrefServer(href, baseUrl) ==
    With(NewURL(href, baseUrl),
         LAMBDA fullUrl : IF ~fullUrl.ok THEN Null
                          ELSE HrefIfSameOrigin(fullUrl, baseUrl))

\* the third callback of the chain: keep the first occurrence of every href
RECURSIVE FilterSeen(_, _)
FilterSeen(s, seen) ==
    IF s = <<>> THEN <<>>
    ELSE IF Head(s) \in seen THEN FilterSeen(Tail(s), seen)
         ELSE <<Head(s)>> \o FilterSeen(Tail(s), seen \cup {Head(s)})

\* .slice(0, 10)
SliceLinks(s) == SubSeq(s, 1, Min(LinkLimit, Len(s)))

\* a slip: the slice taken before the repeats are removed
FilterChainSliceFirst(mapped, rootHost) ==
    With(SelectSeq(mapped, LAMBDA h : h # Null /\ Includes(h, rootHost)),
         LAMBDA kept : FilterSeen(SliceLinks(kept), {}))

\* .map(...).filter(...).filter(...).slice(0, 10)
FilterChain(mapped, rootHost) ==
    With(SelectSeq(mapped, LAMBDA h : h # Null /\ Includes(h, rootHost)),
         LAMBDA kept : SliceLinks(FilterSeen(kept, {})))

\* anchors.map(a => a.getAttribute('href')).filter(href => typeof href === 'string')
RawLinks(as) == SelectSeq(as, LAMBDA h : h # Null)

\* normalizeAndFilterLinks(links, root) of the CLI
NormalizeAndFilterLinks(links, root) ==
    With(ParseAbsolute(root).host, LAMBDA rootHost :
    With(OriginOf(ParseAbsolute(root)), LAMBDA baseUrl :
        FilterChain([i \in 1..Len(links) |-> MapHrefCli(links[i], baseUrl)], rootHost)))

\* the tail of getInternalLinks of the server
ServerFilterLinks(links, root) ==
    With(OriginOf(ParseAbsolute(root)), LAMBDA baseUrl :
    With(ParseAbsolute(root).host, LAMBDA rootHost :
        FilterChain([i \in 1..Len(links) |-> MapHrefServer(links[i], baseUrl)], rootHost)))

\* what getInternalLinks returns once the root page is rendered
InternalLinks(m, as, root) ==
    IF m = "cli" THEN NormalizeAndFilterLinks(RawLinks(as), root)
    ELSE ServerFilterLinks(RawLinks(as), root)

(***************************************************************************)
(* Numbers.  A JavaScript number is [kind, val]: an integer, NaN, or (for  *)
(* sizeKB) null.                                                           *)
(***************************************************************************)
JsNull == [kind |-> "null", val |-> 0]
NaN == [kind |-> "nan", val |-> 0]
Num(n) == [kind |-> "num", val |-> n]

DigitChars == <<"0", "1", "2", "3", "4", "5", "6", "7", "8", "9">>
IsDigit(c) == \E i \in 1..Len(DigitChars) : DigitChars[i] = c
DigitVal(c) == (CHOOSE i \in 1..Len(DigitChars) : DigitChars[i] = c) - 1

\* the value of a sequence of digits
RECURSIVE DigitsValue(_)
DigitsValue(s) ==
    IF s = <<>> THEN 0
    ELSE 10 * DigitsValue(SubSeq(s, 1, Len(s) - 1)) + DigitVal(s[Len(s)])

\* parseInt(s, 10): an optional sign and the longest run of digits after it,
\* NaN when there is no digit
ParseInt(s) ==
    LET neg == s # <<>> /\ s[1] = "-"
        body == IF neg THEN Tail(s) ELSE s
        n == FirstIdx(body, { body[i] : i \in 1..Len(body) } \ { DigitChars[i] : i \in 1..Len(DigitChars) }) - 1
    IN  IF n = 0 THEN NaN
        ELSE Num((IF neg THEN -1 ELSE 1) * DigitsValue(SubSeq(body, 1, n)))

BytesPerKB == 1024

\* a slip: Math.floor for Math.round
FloorKB(x) ==
    IF x.kind # "num" THEN NaN
    ELSE Num(x.val \div BytesPerKB)

\* Math.round(x / 1024): the nearest integer, a half rounded up
RoundKB(x) ==
    IF x.kind # "num" THEN NaN
    ELSE Num((2 * x.val + BytesPerKB) \div (2 * BytesPerKB))

\* String(n) of an integer
RECURSIVE Digits(_)
Digits(n) ==
    IF n < 10 THEN <<DigitChars[n + 1]>>
    ELSE Digits(n \div 10) \o <<DigitChars[(n % 10) + 1]>>

\* a number inside a template literal
NumToString(x) ==
    IF x.kind = "nan" THEN <<"NaN">>
    ELSE IF x.kind = "null" THEN <<"null">>
    ELSE IF x.val < 0 THEN <<"-">> \o Digits(-x.val)
    ELSE Digits(x.val)

(***************************************************************************)
(* The size prober, getFileSizeInKB.                                       *)
(***************************************************************************)
\* the response callback: length ? Math.round(parseInt(length, 10) / 1024) : null
SizeFromLength(length) ==
    IF length = Null \/ length = <<>> THEN JsNull
    ELSE RoundKB(ParseInt(length))

\* Node's HTTP parser takes a Content-Length of digits only; any other value
\* is a parse error, which the request emits as 'error'
ParserAccepts(length) ==
    length = Null \/ \A i \in 1..Len(length) : IsDigit(length[i])

\* what the image host does with the HEAD request
Host(kind, header) == [kind |-> kind, header |-> header]
ContentLengths ==
    { Null, <<>>, <<"0">>, <<"1", "0", "0">>, <<"5", "1", "1">>, <<"5", "1", "2">>,
      <<"1", "5", "3", "5">>, <<"1", "5", "3", "6">>, <<"5", "1", "2", "0", "0">>,
      <<"a", "b", "c">>, <<"-", "5">>, <<"1", "2", "k", "B">> }
AllHosts ==
    { Host("respond", h) : h \in ContentLengths }
        \cup {Host("error", Null), Host("silent", Null)}
RunHosts ==
    {Host("respond", <<"5", "1", "2", "0", "0">>), Host("error", Null), Host("silent", Null)}

NoProbe == [st |-> "idle", host |-> Host("none", Null), timedOut |-> FALSE]

(***************************************************************************)
(* The reporter.                                                           *)
(***************************************************************************)
NoFile == <<"<no file>">>

RECURSIVE Join(_, _)
Join(rows, sep) ==
    IF rows = <<>> THEN <<>>
    ELSE IF Len(rows) = 1 THEN rows[1]
    ELSE rows[1] \o sep \o Join(Tail(rows), sep)

\* 'ImageURL,Width,Height,SizeKB,SourcePage\n'
CsvHeader ==
    <<"ImageURL", ",", "Width", ",", "Height", ",", "SizeKB", ",", "SourcePage", "\n">>

\* a slip: || for ??, which takes a size of 0 for an absent one
SizeOrUnknownIfFalsy(sizeKB) ==
    IF sizeKB = JsNull \/ sizeKB = NaN \/ sizeKB = Num(0) THEN <<"Unknown">>
    ELSE NumToString(sizeKB)

\* img.sizeKB ?? 'Unknown'
SizeOrUnknown(sizeKB) == IF sizeKB = JsNull THEN <<"Unknown">> ELSE NumToString(sizeKB)

\* `${img.url},${img.width},${img.height},${img.sizeKB ?? 'Unknown'},${img.sourcePage}`
CsvRow(img) ==
    img.url \o <<",">> \o Digits(img.width) \o <<",">> \o Digits(img.height)
        \o <<",">> \o SizeOrUnknown(img.sizeKB) \o <<",">> \o img.sourcePage

\* header + rows.join('\n')
CsvContent(images) ==
    With([i \in 1..Len(images) |-> CsvRow(images[i])],
         LAMBDA rows : CsvHeader \o Join(rows, <<"\n">>))

(***************************************************************************)
(* The inputs: the root URL, the url form field, the pages of the site.    *)
(***************************************************************************)
\* const websiteUrl = 'https://jaslangdon.com/'
WebsiteUrl == <<"https", "://", "jaslangdon", ".", "com", "/">>
\* a root a user of the form may type: another scheme, a port, a path
PortRoot == <<"http", "://", "jaslangdon", ".", "com", ":", "8080", "/", "x">>

\* req.body.url: missing, blank, without a scheme, with a scheme and blanks
\* around, without the final slash
UrlFields ==
    { Null, <<" ", " ">>, <<"jaslangdon", ".", "com", "/">>,
      <<" ", "https", "://", "jaslangdon", ".", "com", "/", " ">>,
      <<"https", "://", "jaslangdon", ".", "com">> }

Roots(m) == IF m = "cli" THEN {WebsiteUrl} ELSE {WebsiteUrl, PortRoot}

\* hrefs of the root page in a whole run: itself, a page of the site, another site
RunHrefs == { <<"/">>, <<"/", "about">>, <<"https", "://", "other", ".", "com", "/", "x">> }
RunAnchorLists == UNION { [1..n -> RunHrefs] : n \in 0..MaxAnchors }

\* hrefs of the link-collector scenarios: "/s", "/ss", ... are the pages of the site
PathHref(j) == <<"/">> \o [x \in 1..j |-> "s"]
SpecialHrefs ==
    { Null, <<>>, <<"/">>, <<"/", "s">>, <<"about">>,
      <<"https", "://", "jaslangdon", ".", "com", "/", "s">>,
      <<"https", "://", "jaslangdon", ".", "com", ":", "443", "/", "about">>,
      <<"https", "://", "jaslangdon", ".", "com", ":", "8080", "/">>,
      <<"http", "://", "jaslangdon", ".", "com", "/">>,
      <<"http", "://", "jaslangdon", ".", "com", ":", "8080", "/", "s">>,
      <<"https", "://", "other", ".", "com", "/", "x">>,
      <<"https", "://", "x", ".", "jaslangdon", ".", "com", "/">>,
      <<"https", "://", "other", ".", "com", "/", "jaslangdon", ".", "com">>,
      <<"mailto", ":", "me", "@", "jaslangdon", ".", "com">>,
      <<"https", "://">>,
      <<"https", "://", "jaslangdon", ".", "com", ":", "x", "/">> }
\* n anchors over m pages of the site, the k-th one replaced by a special href
MkAnchors(n, m, k, s) ==
    [i \in 1..n |-> IF i = k THEN s ELSE PathHref(((i - 1) % m) + 1)]
AnchorLists ==
    { MkAnchors(n, m, k, s) :
        n \in 0..MaxLinks, m \in 1..MaxPaths, k \in 0..MaxLinks, s \in SpecialHrefs }

\* <img> elements as $$eval returns them: src (or data-src), naturalWidth, naturalHeight
Item(url, w, h) == [url |-> url, width |-> w, height |-> h]
ImgA == Item(<<"https", "://", "cdn", ".", "com", "/", "a.png">>, 100, 200)
ImgB == Item(<<"http", "://", "jaslangdon", ".", "com", "/", "b.png">>, 0, 0)
\* a data-src that is no absolute URL
ImgLazy == Item(<<"/", "lazy.png">>, 0, 0)
RunPageContents == { <<>>, <<ImgA>>, <<ImgLazy, ImgA>> }
ProbePageContents == { <<ImgA>>, <<ImgB>>, <<ImgLazy>>, <<ImgA, ImgB>> }

Record(item, sizeKB, sourcePage) ==
    [url |-> item.url, width |-> item.width, height |-> item.height,
     sizeKB |-> sizeKB, sourcePage |-> sourcePage]
CsvRecords ==
    { Record(i, z, p) : i \in {ImgA, ImgB}, z \in {JsNull, Num(0), Num(50)},
                        p \in {WebsiteUrl, WebsiteUrl \o <<"about">>} }
CsvRecordLists == UNION { [1..n -> CsvRecords] : n \in 0..MaxRecords }

Response(status, body) == [status |-> status, body |-> body]
NoTrail == [requested |-> FALSE, launched |-> FALSE, failure |-> "", reported |-> FALSE]

(***************************************************************************)
(* The run: the async IIFE of the CLI and the POST /scrape handler.  One   *)
(* action per stretch of code between two awaits.                          *)
(***************************************************************************)
PageUrl == pagesToVisit[idx]

\* the CLI script starts: const websiteUrl = ...; let browser
StartCli ==
    /\ mode = "cli" /\ pc = "idle"
    /\ finalUrl' = WebsiteUrl
    /\ pc' = "launch"
    /\ trail' = [trail EXCEPT !.requested = TRUE]
    /\ UNCHANGED <<mode, anchors, browser, closeCount, pagesToVisit, idx, visitedPages,
                   visited, rawData, imgIdx, imageData, allImages, probe, csvFile,
                   responses>>

\* String.prototype.startsWith('http')
StartsWithHttp(s) == s # <<>> /\ s[1] \in {"http", "https"}

\* app.post('/scrape'): the validation of the url field
ReceiveRequest ==
    /\ mode = "server" /\ pc = "idle"
    /\ \E url \in UrlFields :
         LET targetUrl == IF url = Null THEN Null ELSE Trim(url)
         IN  IF targetUrl = Null \/ targetUrl = <<>>
             THEN /\ responses' = Append(responses, Response(400, "No URL provided"))
                  /\ pc' = "done"
                  /\ UNCHANGED finalUrl
             ELSE /\ finalUrl' = IF StartsWithHttp(targetUrl) THEN targetUrl
                                 ELSE <<"https", "://">> \o targetUrl
                  /\ pc' = "launch"
                  /\ UNCHANGED responses
    /\ trail' = [trail EXCEPT !.requested = TRUE]
    /\ UNCHANGED <<mode, anchors, browser, closeCount, pagesToVisit, idx, visitedPages,
                   visited, rawData, imgIdx, imageData, allImages, probe, csvFile>>

\* browser = await puppeteer.launch(...): the browser, or a throw
Launch ==
    /\ pc = "launch"
    /\ \/ /\ browser' = "open"
          /\ trail' = [trail EXCEPT !.launched = TRUE]
          /\ pc' = "links"
       \/ /\ pc' = "catch"
          /\ trail' = [trail EXCEPT !.failure = "launch"]
          /\ UNCHANGED browser
    /\ UNCHANGED <<mode, finalUrl, anchors, closeCount, pagesToVisit, idx, visitedPages,
                   visited, rawData, imgIdx, imageData, allImages, probe, csvFile,
                   responses>>

\* pagesToVisit = [root, ...(await getInternalLinks(browser, root))]: the page
\* renders and its links are filtered, or newPage / goto / $$eval throws
GetInternalLinks ==
    /\ pc = "links"
    /\ \/ /\ pagesToVisit' = <<finalUrl>> \o InternalLinks(mode, anchors, finalUrl)
          /\ idx' = 1
          /\ pc' = "loop"
          /\ UNCHANGED trail
       \/ /\ pc' = "catch"
          /\ trail' = [trail EXCEPT !.failure = "links"]
          /\ UNCHANGED <<pagesToVisit, idx>>
    /\ UNCHANGED <<mode, finalUrl, anchors, browser, closeCount, visitedPages, visited,
                   rawData, imgIdx, imageData, allImages, probe, csvFile, responses>>

\* the CLI's if (!visitedPages.has(pageUrl)) is false: next page
SkipVisited ==
    /\ mode = "cli" /\ pc = "loop" /\ idx <= Len(pagesToVisit)
    /\ PageUrl \in visitedPages
    /\ idx' = idx + 1
    /\ UNCHANGED <<mode, pc, finalUrl, anchors, browser, closeCount, pagesToVisit,
                   visitedPages, visited, rawData, imgIdx, imageData, allImages, probe,
                   csvFile, responses, trail>>

\* scrapeImagesFromPage(browser, pageUrl) up to its probe loop: the page renders
\* and gives its <img> items, or newPage / goto / $$eval throws
ScrapePage ==
    /\ pc = "loop" /\ idx <= Len(pagesToVisit)
    /\ mode = "cli" => PageUrl \notin visitedPages
    /\ visitedPages' = IF mode = "cli" THEN visitedPages \cup {PageUrl} ELSE visitedPages
    /\ visited' = Append(visited, PageUrl)
    /\ \/ \E items \in RunPageContents :
            /\ rawData' = items
            /\ imgIdx' = 1
            /\ imageData' = <<>>
            /\ pc' = "probe"
            /\ UNCHANGED trail
       \/ /\ pc' = "catch"
          /\ trail' = [trail EXCEPT !.failure = IF idx = 1 THEN "rootPage" ELSE "laterPage"]
          /\ UNCHANGED <<rawData, imgIdx, imageData>>
    /\ UNCHANGED <<mode, finalUrl, anchors, browser, closeCount, pagesToVisit, idx,
                   allImages, probe, csvFile, responses>>

\* the for-of loop over pagesToVisit is over
LoopDone ==
    /\ pc = "loop" /\ idx > Len(pagesToVisit)
    /\ pc' = "csv"
    /\ UNCHANGED <<mode, finalUrl, anchors, browser, closeCount, pagesToVisit, idx,
                   visitedPages, visited, rawData, imgIdx, imageData, allImages, probe,
                   csvFile, responses, trail>>

\* imageData.push({ ...item, sizeKB, sourcePage: url }) once getFileSizeInKB resolved
PushImage(sizeKB, request) ==
    /\ imageData' = Append(imageData, Record(rawData[imgIdx], sizeKB, PageUrl))
    /\ imgIdx' = imgIdx + 1
    /\ probe' = [request EXCEPT !.st = "idle"]

\* getFileSizeInKB(item.url) is called: new URL throws and the catch resolves
\* null, or the HEAD request leaves for a host
StartProbe(hosts) ==
    /\ pc = "probe" /\ probe.st = "idle" /\ imgIdx <= Len(rawData)
    /\ IF ~NewURL(rawData[imgIdx].url, <<>>).ok
       THEN PushImage(JsNull, NoProbe)
       ELSE /\ \E h \in hosts : probe' = [st |-> "pending", host |-> h, timedOut |-> FALSE]
            /\ UNCHANGED <<imageData, imgIdx>>
    /\ UNCHANGED <<mode, pc, finalUrl, anchors, browser, closeCount, pagesToVisit, idx,
                   visitedPages, visited, rawData, allImages, csvFile, responses, trail>>

\* the response arrives: the parser refuses it ('error', resolve(null)) or the
\* callback resolves with the size
ProbeResponse ==
    /\ probe.st = "pending" /\ probe.host.kind = "respond"
    /\ PushImage(IF ParserAccepts(probe.host.header) THEN SizeFromLength(probe.host.header)
                 ELSE JsNull, probe)
    /\ UNCHANGED <<mode, pc, finalUrl, anchors, browser, closeCount, pagesToVisit, idx,
                   visitedPages, visited, rawData, allImages, csvFile, responses, trail>>

\* request.on('error', () => resolve(null))
ProbeError ==
    /\ probe.st = "pending" /\ probe.host.kind = "error"
    /\ PushImage(JsNull, probe)
    /\ UNCHANGED <<mode, pc, finalUrl, anchors, browser, closeCount, pagesToVisit, idx,
                   visitedPages, visited, rawData, allImages, csvFile, responses, trail>>

\* timeout: 5000 elapses: the request emits 'timeout'; it has no listener for
\* it, so the socket stays open and the promise stays pending
ProbeTimeout ==
    /\ probe.st = "pending" /\ ~probe.timedOut
    /\ probe' = [probe EXCEPT !.timedOut = TRUE]
    /\ UNCHANGED <<mode, pc, finalUrl, anchors, browser, closeCount, pagesToVisit, idx,
                   visitedPages, visited, rawData, imgIdx, imageData, allImages, csvFile,
                   responses, trail>>

\* the probe loop is over: page.close(), return imageData, allImages.push(...images)
PageDone ==
    /\ pc = "probe" /\ probe.st = "idle" /\ imgIdx > Len(rawData)
    /\ allImages' = allImages \o imageData
    /\ idx' = idx + 1
    /\ pc' = "loop"
    /\ UNCHANGED <<mode, finalUrl, anchors, browser, closeCount, pagesToVisit,
                   visitedPages, visited, rawData, imgIdx, imageData, probe, csvFile,
                   responses, trail>>

\* saveImageDataToCSV(allImages, 'image-detailsPlus.csv') of the CLI
SaveImageDataToCSV ==
    /\ mode = "cli" /\ pc = "csv"
    /\ IF allImages = <<>>
       THEN /\ pc' = "finally"
            /\ trail' = [trail EXCEPT !.reported = TRUE]
            /\ UNCHANGED csvFile
       ELSE \/ /\ csvFile' = CsvContent(allImages)
               /\ pc' = "finally"
               /\ trail' = [trail EXCEPT !.reported = TRUE]
            \/ /\ pc' = "catch"
               /\ trail' = [trail EXCEPT !.failure = "csv"]
               /\ UNCHANGED csvFile
    /\ UNCHANGED <<mode, finalUrl, anchors, browser, closeCount, pagesToVisit, idx,
                   visitedPages, visited, rawData, imgIdx, imageData, allImages, probe,
                   responses>>

\* the server's CSV: csvContent = header + rows, fs.writeFileSync(desktopPath, ...)
ServerWriteCsv ==
    /\ mode = "server" /\ pc = "csv"
    /\ \/ /\ csvFile' = CsvContent(allImages)
          /\ pc' = "respond"
          /\ UNCHANGED trail
       \/ /\ pc' = "catch"
          /\ trail' = [trail EXCEPT !.failure = "csv"]
          /\ UNCHANGED csvFile
    /\ UNCHANGED <<mode, finalUrl, anchors, browser, closeCount, pagesToVisit, idx,
                   visitedPages, visited, rawData, imgIdx, imageData, allImages, probe,
                   responses>>

\* res.send(html)
SendHtml ==
    /\ pc = "respond"
    /\ responses' = Append(responses, Response(200, "html"))
    /\ trail' = [trail EXCEPT !.reported = TRUE]
    /\ pc' = "finally"
    /\ UNCHANGED <<mode, finalUrl, anchors, browser, closeCount, pagesToVisit, idx,
                   visitedPages, visited, rawData, imgIdx, imageData, allImages, probe,
                   csvFile>>

\* catch: console.error (CLI), res.status(500).send('Scraping failed.') (server)
Catch ==
    /\ pc = "catch"
    /\ responses' = IF mode = "server"
                    THEN Append(responses, Response(500, "Scraping failed."))
                    ELSE responses
    /\ pc' = "finally"
    /\ UNCHANGED <<mode, finalUrl, anchors, browser, closeCount, pagesToVisit, idx,
                   visitedPages, visited, rawData, imgIdx, imageData, allImages, probe,
                   csvFile, trail>>

\* a slip: the browser closed at the end of the try block, not in a finally
FinallyAfterSuccess ==
    /\ pc = "finally"
    /\ IF browser # "none" /\ trail.failure = ""
       THEN browser' = "closed" /\ closeCount' = closeCount + 1
       ELSE UNCHANGED <<browser, closeCount>>
    /\ pc' = "done"
    /\ UNCHANGED <<mode, finalUrl, anchors, pagesToVisit, idx, visitedPages, visited,
                   rawData, imgIdx, imageData, allImages, probe, csvFile, responses,
                   trail>>

\* finally: if (browser) await browser.close()
Finally ==
    /\ pc = "finally"
    /\ IF browser # "none"
       THEN browser' = "closed" /\ closeCount' = closeCount + 1
       ELSE UNCHANGED <<browser, closeCount>>
    /\ pc' = "done"
    /\ UNCHANGED <<mode, finalUrl, anchors, pagesToVisit, idx, visitedPages, visited,
                   rawData, imgIdx, imageData, allImages, probe, csvFile, responses,
                   trail>>

(***************************************************************************)
(* Specifications.                                                         *)
(***************************************************************************)
\* the state before the run
Fresh ==
    /\ pc = "idle" /\ finalUrl = <<>> /\ browser = "none" /\ closeCount = 0
    /\ pagesToVisit = <<>> /\ idx = 1 /\ visitedPages = {} /\ visited = <<>>
    /\ rawData = <<>> /\ imgIdx = 1 /\ imageData = <<>> /\ allImages = <<>>
    /\ probe = NoProbe /\ csvFile = NoFile /\ responses = <<>> /\ trail = NoTrail

\* a whole run, CLI or server, of a site whose root page has a few anchors
Init ==
    /\ mode \in {"cli", "server"}
    /\ anchors \in RunAnchorLists
    /\ Fresh

Next ==
    \/ StartCli \/ ReceiveRequest \/ Launch \/ GetInternalLinks
    \/ SkipVisited \/ ScrapePage \/ LoopDone
    \/ StartProbe(RunHosts) \/ ProbeResponse \/ ProbeError \/ ProbeTimeout \/ PageDone
    \/ SaveImageDataToCSV \/ ServerWriteCsv \/ SendHtml \/ Catch \/ Finally

Spec == Init /\ [][Next]_vars

\* every step of the program and every event that is due happens
FairSpec == Spec /\ WF_vars(Next)

\* the state of a run whose browser is open, at program point p
Running(p) ==
    /\ pc = p /\ browser = "open" /\ closeCount = 0
    /\ visitedPages = {} /\ visited = <<>>
    /\ rawData = <<>> /\ imgIdx = 1 /\ imageData = <<>>
    /\ probe = NoProbe /\ csvFile = NoFile /\ responses = <<>>
    /\ trail = [NoTrail EXCEPT !.requested = TRUE, !.launched = TRUE]

\* the link collector alone, on root pages of up to MaxLinks anchors
LinkInit ==
    /\ mode \in {"cli", "server"}
    /\ finalUrl \in Roots(mode)
    /\ anchors \in AnchorLists
    /\ pagesToVisit = <<>> /\ idx = 1 /\ allImages = <<>>
    /\ Running("links")

LinkNext == GetInternalLinks

LinkSpec == LinkInit /\ [][LinkNext]_vars

\* the size prober alone, on the images of one page and every kind of host
ProbeInit ==
    /\ mode \in {"cli", "server"}
    /\ finalUrl = WebsiteUrl /\ anchors = <<>>
    /\ pagesToVisit = <<WebsiteUrl>> /\ idx = 1 /\ allImages = <<>>
    /\ browser = "open" /\ closeCount = 0
    /\ visitedPages = (IF mode = "cli" THEN {WebsiteUrl} ELSE {}) /\ visited = <<WebsiteUrl>>
    /\ rawData \in ProbePageContents /\ imgIdx = 1 /\ imageData = <<>>
    /\ pc = "probe" /\ probe = NoProbe /\ csvFile = NoFile /\ responses = <<>>
    /\ trail = [NoTrail EXCEPT !.requested = TRUE, !.launched = TRUE]

ProbeNext == StartProbe(AllHosts) \/ ProbeResponse \/ ProbeError \/ ProbeTimeout

ProbeSpec == ProbeInit /\ [][ProbeNext]_vars

\* the reporter alone, on every short list of records
CsvInit ==
    /\ mode \in {"cli", "server"}
    /\ finalUrl = WebsiteUrl /\ anchors = <<>>
    /\ pagesToVisit = <<WebsiteUrl>> /\ idx = 2
    /\ allImages \in CsvRecordLists
    /\ Running("csv")

CsvNext == SaveImageDataToCSV \/ ServerWriteCsv

CsvSpec == CsvInit /\ [][CsvNext]_vars

(***************************************************************************)
(* Properties.                                                             *)
(***************************************************************************)
NoRepeat(s) == \A i, j \in 1..Len(s) : i # j => s[i] # s[j]
EffectivePort(u) == IF u.port = "" THEN DefaultPort(u.scheme) ELSE u.port
\* scheme, host and port all match
SameOrigin(u, v) ==
    u.ok /\ v.ok /\ u.scheme = v.scheme /\ u.host = v.host
        /\ EffectivePort(u) = EffectivePort(v)
\* the links getInternalLinks returned
Links == Tail(pagesToVisit)

RECURSIVE SplitOn(_, _)
SplitOn(s, sep) ==
    LET i == FirstIdx(s, {sep})
    IN  IF i > Len(s) THEN <<s>>
        ELSE <<SubSeq(s, 1, i - 1)>> \o SplitOn(SubSeq(s, i + 1, Len(s)), sep)
AllDigits(s) == s # <<>> /\ \A i \in 1..Len(s) : IsDigit(s[i])

\* C1: the pages visited for image extraction are at most 11 (the root and 10
\* links) and no URL is visited twice, in the CLI run and in the server's
\* handler alike.
C1_VisitedBoundedDistinct ==
    Len(visited) <= LinkLimit + 1 /\ NoRepeat(visited)

\* C2: every URL the link collector returns parses and has the scheme, host and
\* port of the root; a href that does not parse raises nothing and is dropped;
\* a path such as /about is returned as the root's origin followed by the path
\* (when the 10 places are not all taken by earlier links).
C2_LinksSameOrigin ==
    pc = "loop" =>
        /\ \A i \in 1..Len(Links) :
             SameOrigin(NewURL(Links[i], <<>>), ParseAbsolute(finalUrl))
        /\ Len(Links) < LinkLimit =>
             \A i \in 1..Len(anchors) :
                 (Len(anchors[i]) >= 2 /\ anchors[i][1] = "/") =>
                     \E k \in 1..Len(Links) :
                         Links[k] = SubSeq(finalUrl, 1, FirstIdx(finalUrl, {"/"}) - 1)
                                        \o anchors[i]

\* C2 happens: links were returned from a page that also links to a host whose
\* name contains the root's, and to a href that does not parse.
C2_Witness ==
    /\ pc = "loop" /\ Len(Links) >= 2
    /\ \E i \in 1..Len(anchors) :
         anchors[i] \in { <<"https", "://", "x", ".", "jaslangdon", ".", "com", "/">>,
                          <<"https", "://">> }

\* C3: a probe whose request has left always settles: its promise is resolved
\* with a number or null, also when the host never answers.
C3_ProbeSettles == (probe.st = "pending") ~> (probe.st = "idle")

\* C4: a failure on a page after the root page does not abort the run: the run
\* still reaches its reporting step.
C4_LaterFailureAbsorbed ==
    (pc = "done" /\ trail.failure = "laterPage") => trail.reported

\* C5: on every exit path the browser is closed exactly once when it was
\* launched, and browser.close() is not called when the launch failed.
C5_BrowserClosedOnce ==
    /\ closeCount <= 1
    /\ pc = "done" =>
         /\ closeCount = (IF trail.launched THEN 1 ELSE 0)
         /\ browser = (IF trail.launched THEN "closed" ELSE "none")

\* C5 happens: a run whose CSV write failed has ended with the browser closed.
C5_Witness ==
    pc = "done" /\ trail.failure = "csv" /\ closeCount = 1 /\ browser = "closed"

\* C6: every request to POST /scrape gets exactly one response.
C6_AnsweredOnce ==
    (mode = "server" /\ trail.requested) ~> (Len(responses) = 1)

\* C7: a crawl that ends with no image record writes no CSV file, CLI and
\* server alike.
C7_NoFileWhenEmpty ==
    (pc = "done" /\ allImages = <<>>) => csvFile = NoFile

\* C8: the CSV text of a non-empty list of records is the header line and then
\* one line per record, in the order of the records; a line is the record's
\* url, width, height, sizeKB and sourcePage between commas, the numbers in
\* decimal and an absent sizeKB as Unknown.
C8_CsvRows ==
    (csvFile # NoFile /\ allImages # <<>>) =>
        LET lines == SplitOn(csvFile, "\n")
        IN  /\ Len(lines) = Len(allImages) + 1
            /\ SplitOn(lines[1], ",")
                 = << <<"ImageURL">>, <<"Width">>, <<"Height">>, <<"SizeKB">>,
                      <<"SourcePage">> >>
            /\ \A i \in 1..Len(allImages) :
                 LET f == SplitOn(lines[i + 1], ",")
                     img == allImages[i]
                 IN  /\ Len(f) = 5
                     /\ f[1] = img.url
                     /\ AllDigits(f[2]) /\ DigitsValue(f[2]) = img.width
                     /\ AllDigits(f[3]) /\ DigitsValue(f[3]) = img.height
                     /\ IF img.sizeKB = JsNull THEN f[4] = <<"Unknown">>
                        ELSE AllDigits(f[4]) /\ Num(DigitsValue(f[4])) = img.sizeKB
                     /\ f[5] = img.sourcePage

\* C8 happens: a file was written for two records, the first of unknown size
\* and the second of size 0.
C8_Witness ==
    /\ csvFile # NoFile /\ Len(allImages) = 2
    /\ allImages[1].sizeKB = JsNull /\ allImages[2].sizeKB = Num(0)
    /\ allImages[1].url # allImages[2].url

\* the reference of C9: resolve each href (the empty ones too, unless
\* dropEmpty), keep the same-origin ones, keep the first occurrence of each
\* resolved string in page order, take the first 10
ReferenceLinks(hrefs, root, dropEmpty) ==
    LET r == ParseAbsolute(root)
        res(i) == IF dropEmpty /\ hrefs[i] = <<>> THEN Invalid
                  ELSE NewURL(hrefs[i], OriginOf(r))
        same(i) == SameOrigin(res(i), r)
        first == { i \in 1..Len(hrefs) :
                     same(i) /\ \A j \in 1..(i - 1) :
                                   same(j) => HrefOf(res(j)) # HrefOf(res(i)) }
        kth(k) == CHOOSE i \in first : Cardinality({ j \in first : j < i }) = k - 1
    IN  [k \in 1..Min(LinkLimit, Cardinality(first)) |-> HrefOf(res(kth(k)))]

\* C9 as stated: the collector's result is the reference, every href resolved.
C9_LinksAreReference ==
    pc = "loop" => Links = ReferenceLinks(RawLinks(anchors), finalUrl, FALSE)

\* C9 as amended: the collector's result is the reference, where the CLI's
\* collector skips an empty href instead of resolving it to the root; so the
\* result has at most 10 entries, no two equal, and repeats take none of the
\* 10 places.
C9_LinksAreReferenceSkippingEmpty ==
    pc = "loop" =>
        /\ Links = ReferenceLinks(RawLinks(anchors), finalUrl, mode = "cli")
        /\ Len(Links) <= LinkLimit
        /\ NoRepeat(Links)

\* C9 happens: more than 10 distinct links, one of them repeated among the
\* first 10 anchors, and 10 links returned.
C9_Witness ==
    /\ pc = "loop" /\ Len(Links) = LinkLimit
    /\ Len(anchors) > LinkLimit + 1
    /\ \E i, j \in 1..LinkLimit : i < j /\ anchors[i] = anchors[j] /\ anchors[i] # Null

\* C10: a response without Content-Length gives null, one with a Content-Length
\* of n bytes gives the integer nearest to n / 1024 (51200 gives 50), and
\* whatever the header holds the size is null or an integer >= 0.
C10_SizeFromContentLength ==
    (probe.st = "idle" /\ probe.host.kind = "respond" /\ imageData # <<>>) =>
        LET size == imageData[Len(imageData)].sizeKB
            h == probe.host.header
        IN  /\ h = Null => size = JsNull
            /\ (h # Null /\ AllDigits(h)) =>
                 /\ size.kind = "num"
                 /\ 2 * BytesPerKB * size.val - BytesPerKB <= 2 * DigitsValue(h)
                 /\ 2 * DigitsValue(h) < 2 * BytesPerKB * size.val + BytesPerKB
            /\ h = <<"5", "1", "2", "0", "0">> => size = Num(50)
            /\ size = JsNull \/ (size.kind = "num" /\ size.val >= 0)

\* C10 happens: a response with Content-Length 1536 (1.5 KB) was received and
\* its size recorded.
C10_Witness ==
    /\ probe.st = "idle" /\ probe.host = Host("respond", <<"1", "5", "3", "6">>)
    /\ imageData # <<>> /\ imageData[Len(imageData)].sizeKB = Num(2)

====
